---- MODULE Spec2Model ----
(***************************************************************************)
(* Model of src/Hacks/__main__.py: the parallel file-tree digest program.  *)
(*                                                                         *)
(* __main__ calls build_digest_map twice over the same directory, first    *)
(* with POOLSIZE = 1 and then with POOLSIZE = 16.  build_digest_map        *)
(* creates a multiprocessing.Pool, a managedNotify manager holding one     *)
(* notify object (the sink), materialises the walk into argsR, runs        *)
(* compute_digest over argsR with Pool.starmap, builds a dict from the     *)
(* results, calls notify.final and returns the dict.                       *)
(*                                                                         *)
(* Library behaviour the program relies on, modelled as the library        *)
(* implements it:                                                          *)
(*  - Pool.starmap puts the tasks on one queue; an idle worker takes the   *)
(*    next one; starmap is ready only when every task has an outcome and   *)
(*    then returns the list in task order or raises the first exception    *)
(*    a task raised.  (At the sizes modelled the chunk size                *)
(*    ceil(len / (4 * POOLSIZE)) is 1: one task per chunk.)                *)
(*  - The BaseManager server runs the calls of every connected process in  *)
(*    a thread of their own (Server.accepter starts one thread per         *)
(*    connection) and takes no lock around the method called, and notify   *)
(*    takes none either.  The statements of notify.msPrint run by two      *)
(*    such threads are a data race on self.x and on the two output         *)
(*    streams: the model lets the threads interleave between the load of   *)
(*    self.x, its store, the print and the file write.                     *)
(*  - os.walk yields the files of the tree in a fixed order.               *)
(***************************************************************************)
EXTENDS Integers, Sequences, FiniteSets, TLC

\* Largest pool the model creates; the POOLSIZE = 16 of the second run is
\* capped to it.
MaxPool == 2

\* Read buffer size used by the model in place of BUFSIZE = 2**25, so that
\* a file of the modelled tree takes more than one chunk.
MaxChunk == 2

VARIABLES
    rootOk,      \* whether os.walk can list the root directory
    kind,        \* the directory tree: per path "absent", "ok", "noopen", "readfail"
    logOpenOk,   \* whether open(fname, 'w') of the run log succeeds
    POOLSIZE,    \* the module global
    run,         \* which call of build_digest_map in __main__ (1 or 2)
    pc,          \* position of the main process
    argsR,       \* the task list built at line 76 (paths; the proxy is shared)
    walkPos,     \* how far the allfiles generator has advanced
    pending,     \* the pool's task queue: indexes into argsR not yet taken
    results,     \* per task, the outcome received by starmap
    x,           \* notify.x
    sink,        \* "none", "live" (constructed, file open), "finalized"
    console,     \* progress lines printed by msPrint in this run
    log,         \* lines written to the run log in this run
    summary,     \* totals printed by notify.final in this run
    closeCalls,  \* number of self.file.close() calls in this run
    digest_map,  \* build_digest_map's local digest_map
    mainMaps,    \* the values bound to __main__'s digest_map, in order
    wpc,         \* per worker: position inside compute_digest / msPrint
    wtask,       \* per worker: index of the task it holds (0: none)
    woff,        \* per worker: read offset in the open file
    wh,          \* per worker: state of the hash accumulator
    wtmp,        \* per manager thread: the value of self.x loaded by +=
    taken,       \* history: per task, the workers that ever took it
    outcomes,    \* history: per task, how many outcomes were delivered
    hContent,    \* digest loop alone: the bytes of the file
    hBuf,        \* digest loop alone: the chunk size passed to f.read
    hOff,        \* digest loop alone: the file position
    hAcc,        \* digest loop alone: the hash accumulator
    hFed,        \* digest loop alone, history: the bytes fed to the accumulator
    hpc          \* digest loop alone: "off", "read" or "done"

\* The variables of the digest loop run alone.
hvars == <<hContent, hBuf, hOff, hAcc, hFed, hpc>>

\* The variables of the program.
progvars == <<rootOk, kind, logOpenOk, POOLSIZE, run, pc, argsR, walkPos,
              pending, results, x, sink, console, log, summary, closeCalls,
              digest_map, mainMaps, wpc, wtask, woff, wh, wtmp, taken,
              outcomes>>

vars == <<rootOk, kind, logOpenOk, POOLSIZE, run, pc, argsR, walkPos, pending, results,
          x, sink, console, log, summary, closeCalls, digest_map, mainMaps,
          wpc, wtask, woff, wh, wtmp, taken, outcomes, hvars>>

\* Longest file content of the digest loop run alone.
MaxLen == 3

----------------------------------------------------------------------------
(* The directory tree *)

Paths == {"a.txt", "b.txt", "sub/c.txt"}

\* The order in which os.walk yields the paths (top-down: the root's files,
\* then those of sub/).
WalkOrder == <<"a.txt", "b.txt", "sub/c.txt">>

Kinds == {"absent", "ok", "noopen", "readfail"}

\* File contents as bytes; b.txt is empty.
Content(p) ==
    CASE p = "a.txt" -> <<104, 105, 33>>
      [] p = "b.txt" -> <<>>
      [] OTHER -> <<119, 111>>

Min(a, b) == IF a < b THEN a ELSE b

Workers == 1 .. MaxPool

\* The processes of digest_pool.
PoolWorkers == 1 .. POOLSIZE

----------------------------------------------------------------------------
(* hashlib.sha512 as a streaming accumulator of one byte of state *)

BUFSIZE == MaxChunk

RECURSIVE DigestUpdate(_, _)
DigestUpdate(h, chunk) ==
    IF chunk = <<>> THEN h
    ELSE DigestUpdate((h * 31 + Head(chunk) + 1) % 256, Tail(chunk))

\* A mutant of DigestNew keeps the previous accumulator of the worker.
DigestReuse(prev) == prev

\* digest = hashlib.sha512(): a fresh accumulator, whatever the variable
\* held before.
DigestNew(prev) == 7

HexDigits == <<"0", "1", "2", "3", "4", "5", "6", "7",
               "8", "9", "a", "b", "c", "d", "e", "f">>

\* digest.digest().hex(): two lowercase hex digits per byte.
Hex(h) == <<HexDigits[(h \div 16) + 1], HexDigits[(h % 16) + 1]>>

\* s[:n]
Prefix(s, n) == SubSeq(s, 1, Min(n, Len(s)))

\* f.read(n) at position off of a file holding the bytes c: at most n
\* bytes, fewer at the end of the file, none after it.
ReadAt(c, off, n) == SubSeq(c, off + 1, Min(off + n, Len(c)))

\* f.read(BUFSIZE) at offset off.
ReadChunk(p, off) == ReadAt(Content(p), off, BUFSIZE)

\* A mutant of LoopEnds: a chunk shorter than the buffer is taken for the
\* end of the file.
LoopEndsOnShort(chunk, n) == Len(chunk) < n

\* line 46, if not chunk: the read of n bytes returned nothing.
LoopEnds(chunk, n) == chunk = <<>>

----------------------------------------------------------------------------
(* Outcomes of tasks, as starmap receives them *)

Pending == [tag |-> "pending", path |-> "", digest |-> <<>>]
RetNone == [tag |-> "None", path |-> "", digest |-> <<>>]
Raised  == [tag |-> "exc", path |-> "", digest |-> <<>>]
Pair(p, d) == [tag |-> "pair", path |-> p, digest |-> d]

\* A mutant of StarmapReady: ready as soon as every task is dispatched.
StarmapReadyEarly == pending = <<>>

\* MapResult is ready once every task has delivered its outcome.
StarmapReady == \A i \in 1 .. Len(results) : results[i].tag # "pending"

\* dict(list of pairs): a later pair with the same key overwrites.
Dict(rs) ==
    LET idx == {i \in 1 .. Len(rs) : rs[i].tag = "pair"}
        keys == {rs[i].path : i \in idx}
        last(p) == CHOOSE i \in idx : /\ rs[i].path = p
                                      /\ \A j \in idx : rs[j].path = p => j <= i
    IN  [p \in keys |-> rs[last(p)].digest]

\* A mutant of Dequeue: the task taken stays on the queue.
DequeueKeep(q) == q

\* The task queue after a worker took its head.
Dequeue(q) == Tail(q)

\* A mutant of FileWrite: the line is written twice.
FileWriteTwice(f, line) == Append(Append(f, line), line)

\* self.file.write('%-175s\t%s\n' % (filename, digest)): one line, the path
\* (padded, never truncated) and the full digest.
FileWrite(f, line) == Append(f, line)

----------------------------------------------------------------------------
(* Initial state: __main__ is about to call build_digest_map the first time *)

IdleWorkers == [w \in Workers |-> "idle"]
Zeros == [w \in Workers |-> 0]

\* The locals and globals of the program before the first call.
ProgramStart ==
    /\ POOLSIZE = 1
    /\ run = 1
    /\ pc = "pool"
    /\ argsR = <<>>
    /\ walkPos = 0
    /\ pending = <<>>
    /\ results = <<>>
    /\ x = 0
    /\ sink = "none"
    /\ console = <<>>
    /\ log = <<>>
    /\ summary = <<>>
    /\ closeCalls = 0
    /\ digest_map = <<>>
    /\ mainMaps = <<>>
    /\ wpc = IdleWorkers
    /\ wtask = Zeros
    /\ woff = Zeros
    /\ wh = Zeros
    /\ wtmp = Zeros
    /\ taken = <<>>
    /\ outcomes = <<>>

Init ==
    /\ rootOk \in BOOLEAN
    /\ kind \in [Paths -> Kinds]
    /\ ~rootOk => \A p \in Paths : kind[p] = "absent"
    /\ logOpenOk \in BOOLEAN
    /\ ProgramStart
    /\ hContent = <<>>
    /\ hBuf = 1
    /\ hOff = 0
    /\ hAcc = 0
    /\ hFed = <<>>
    /\ hpc = "off"

----------------------------------------------------------------------------
(* build_digest_map, the main process *)

\* line 61: digest_pool = multiprocessing.Pool(POOLSIZE)
CreatePool ==
    /\ pc = "pool"
    /\ pc' = "manager"
    /\ wpc' = IdleWorkers
    /\ wtask' = Zeros
    /\ woff' = Zeros
    /\ wh' = Zeros
    /\ wtmp' = Zeros
    /\ UNCHANGED <<hvars, rootOk, kind, logOpenOk, POOLSIZE, run, argsR, walkPos, pending,
                   results, x, sink, console, log, summary, closeCalls,
                   digest_map, mainMaps, taken, outcomes>>

\* A mutant of LogOpens: a failure to open the run log goes unnoticed.
LogOpensAlways == TRUE

\* line 20: open(fname, 'w') returns a file; otherwise it raises.
LogOpens == logOpenOk

\* lines 71-73: the manager starts and constructs notify(fname): x = 0 and
\* the run log opened for writing (truncated).
CreateSink ==
    /\ pc = "manager"
    /\ LogOpens
    /\ x' = 0
    /\ sink' = "live"
    /\ log' = <<>>
    /\ pc' = "walk"
    /\ UNCHANGED <<hvars, rootOk, kind, logOpenOk, POOLSIZE, run, argsR, walkPos, pending,
                   results, console, summary, closeCalls, digest_map, mainMaps,
                   wpc, wtask, woff, wh, wtmp, taken, outcomes>>

\* line 73 when open(fname, 'w') fails: the exception leaves
\* build_digest_map and ends __main__.
CreateSinkFails ==
    /\ pc = "manager"
    /\ ~LogOpens
    /\ pc' = "raised"
    /\ UNCHANGED <<hvars, rootOk, kind, logOpenOk, POOLSIZE, run, argsR, walkPos, pending,
                   results, x, sink, console, log, summary, closeCalls,
                   digest_map, mainMaps, wpc, wtask, woff, wh, wtmp, taken,
                   outcomes>>

\* A mutant of WalkDone: the tasks are handed out while the walk goes on.
WalkDoneEarly == TRUE

\* The allfiles generator is exhausted.  os.walk ignores the error of
\* listing a root that is missing or unreadable (onerror is None) and then
\* yields nothing.
WalkDone == walkPos = Len(WalkOrder) \/ ~rootOk

\* lines 75-76: one iteration of the loop over allfiles.
WalkStep ==
    /\ pc = "walk"
    /\ rootOk
    /\ walkPos < Len(WalkOrder)
    /\ walkPos' = walkPos + 1
    /\ argsR' = IF kind[WalkOrder[walkPos + 1]] = "absent"
                THEN argsR
                ELSE Append(argsR, WalkOrder[walkPos + 1])
    /\ UNCHANGED <<hvars, rootOk, kind, logOpenOk, POOLSIZE, run, pc, pending, results, x,
                   sink, console, log, summary, closeCalls, digest_map,
                   mainMaps, wpc, wtask, woff, wh, wtmp, taken, outcomes>>

\* line 80, the call: the generator is exhausted and starmap puts every
\* task of argsR on the pool's queue, then waits.
Launch ==
    /\ pc = "walk"
    /\ WalkDone
    /\ pending' = [i \in 1 .. Len(argsR) |-> i]
    /\ results' = [i \in 1 .. Len(argsR) |-> Pending]
    /\ taken' = [i \in 1 .. Len(argsR) |-> {}]
    /\ outcomes' = [i \in 1 .. Len(argsR) |-> 0]
    /\ pc' = "wait"
    /\ UNCHANGED <<hvars, rootOk, kind, logOpenOk, POOLSIZE, run, argsR, walkPos, x, sink,
                   console, log, summary, closeCalls, digest_map, mainMaps,
                   wpc, wtask, woff, wh, wtmp>>

\* line 80: starmap re-raises the exception a task raised.
StarmapRaises ==
    /\ pc = "wait"
    /\ StarmapReady
    /\ \E i \in 1 .. Len(results) : results[i].tag = "exc"
    /\ pc' = "raised"
    /\ UNCHANGED <<hvars, rootOk, kind, logOpenOk, POOLSIZE, run, argsR, walkPos, pending,
                   results, x, sink, console, log, summary, closeCalls,
                   digest_map, mainMaps, wpc, wtask, woff, wh, wtmp, taken,
                   outcomes>>

\* line 80: starmap returns a list holding a None; dict() raises TypeError.
DictTypeError ==
    /\ pc = "wait"
    /\ StarmapReady
    /\ \A i \in 1 .. Len(results) : results[i].tag # "exc"
    /\ \E i \in 1 .. Len(results) : results[i].tag = "None"
    /\ pc' = "raised"
    /\ UNCHANGED <<hvars, rootOk, kind, logOpenOk, POOLSIZE, run, argsR, walkPos, pending,
                   results, x, sink, console, log, summary, closeCalls,
                   digest_map, mainMaps, wpc, wtask, woff, wh, wtmp, taken,
                   outcomes>>

\* lines 80-81: starmap returns a list of pairs, dict() builds the map and
\* the pool is closed.
DictBuilt ==
    /\ pc = "wait"
    /\ StarmapReady
    /\ \A i \in 1 .. Len(results) : results[i].tag \notin {"exc", "None"}
    /\ digest_map' = Dict(results)
    /\ pc' = "final"
    /\ UNCHANGED <<hvars, rootOk, kind, logOpenOk, POOLSIZE, run, argsR, walkPos, pending,
                   results, x, sink, console, log, summary, closeCalls,
                   mainMaps, wpc, wtask, woff, wh, wtmp, taken, outcomes>>

\* lines 83-84: temp.final() prints the total and closes the run log, then
\* the manager is shut down.
Final ==
    /\ pc = "final"
    /\ summary' = Append(summary, x)
    /\ closeCalls' = closeCalls + 1
    /\ sink' = "finalized"
    /\ pc' = "return"
    /\ UNCHANGED <<hvars, rootOk, kind, logOpenOk, POOLSIZE, run, argsR, walkPos, pending,
                   results, x, console, log, digest_map, mainMaps, wpc, wtask,
                   woff, wh, wtmp, taken, outcomes>>

\* line 86 and lines 100 / 111: the map is returned and bound in __main__.
Return ==
    /\ pc = "return"
    /\ mainMaps' = Append(mainMaps, digest_map)
    /\ pc' = "main"
    /\ UNCHANGED <<hvars, rootOk, kind, logOpenOk, POOLSIZE, run, argsR, walkPos, pending,
                   results, x, sink, console, log, summary, closeCalls,
                   digest_map, wpc, wtask, woff, wh, wtmp, taken, outcomes>>

\* lines 108-111: POOLSIZE = 16 and the second call of build_digest_map,
\* with fresh locals; the first call's sink went with its manager, and the
\* second call's run log is another file.
SecondRun ==
    /\ pc = "main"
    /\ run = 1
    /\ run' = 2
    /\ POOLSIZE' = Min(16, MaxPool)
    /\ pc' = "pool"
    /\ argsR' = <<>>
    /\ walkPos' = 0
    /\ pending' = <<>>
    /\ results' = <<>>
    /\ taken' = <<>>
    /\ outcomes' = <<>>
    /\ sink' = "none"
    /\ console' = <<>>
    /\ summary' = <<>>
    /\ closeCalls' = 0
    /\ digest_map' = <<>>
    /\ x' = 0
    /\ log' = <<>>
    /\ UNCHANGED <<hvars, rootOk, kind, logOpenOk, mainMaps, wpc, wtask, woff, wh, wtmp>>

----------------------------------------------------------------------------
(* compute_digest, run by a pool worker, and its call of notify.msPrint *)

Deliver(w, outcome) ==
    /\ results' = [results EXCEPT ![wtask[w]] = outcome]
    /\ outcomes' = [outcomes EXCEPT ![wtask[w]] = @ + 1]
    /\ wtask' = [wtask EXCEPT ![w] = 0]
    /\ wpc' = [wpc EXCEPT ![w] = "idle"]

\* An idle worker takes the next task from the pool's queue.
Take(w) ==
    /\ w \in PoolWorkers
    /\ wpc[w] = "idle"
    /\ pending # <<>>
    /\ wtask' = [wtask EXCEPT ![w] = Head(pending)]
    /\ taken' = [taken EXCEPT ![Head(pending)] = @ \cup {w}]
    /\ pending' = Dequeue(pending)
    /\ wpc' = [wpc EXCEPT ![w] = "open"]
    /\ UNCHANGED <<hvars, rootOk, kind, logOpenOk, POOLSIZE, run, pc, argsR, walkPos, results,
                   x, sink, console, log, summary, closeCalls, digest_map,
                   mainMaps, woff, wh, wtmp, outcomes>>

\* lines 36-39: open fails with IOError and compute_digest returns None.
OpenFails(w) ==
    /\ w \in PoolWorkers
    /\ wpc[w] = "open"
    /\ kind[argsR[wtask[w]]] = "noopen"
    /\ Deliver(w, RetNone)
    /\ UNCHANGED <<hvars, rootOk, kind, logOpenOk, POOLSIZE, run, pc, argsR, walkPos, pending,
                   x, sink, console, log, summary, closeCalls, digest_map,
                   mainMaps, woff, wh, wtmp, taken>>

\* lines 37, 41: the file is open and a new accumulator is created.
Open(w) ==
    /\ w \in PoolWorkers
    /\ wpc[w] = "open"
    /\ kind[argsR[wtask[w]]] # "noopen"
    /\ woff' = [woff EXCEPT ![w] = 0]
    /\ wh' = [wh EXCEPT ![w] = DigestNew(wh[w])]
    /\ wpc' = [wpc EXCEPT ![w] = "read"]
    /\ UNCHANGED <<hvars, rootOk, kind, logOpenOk, POOLSIZE, run, pc, argsR, walkPos, pending,
                   results, x, sink, console, log, summary, closeCalls,
                   digest_map, mainMaps, wtask, wtmp, taken, outcomes>>

\* line 44 when f.read raises: nothing in compute_digest catches it, the
\* pool worker sends the exception back as the task's outcome.
ReadRaises(w) ==
    /\ w \in PoolWorkers
    /\ wpc[w] = "read"
    /\ kind[argsR[wtask[w]]] = "readfail"
    /\ Deliver(w, Raised)
    /\ UNCHANGED <<hvars, rootOk, kind, logOpenOk, POOLSIZE, run, pc, argsR, walkPos, pending,
                   x, sink, console, log, summary, closeCalls, digest_map,
                   mainMaps, woff, wh, wtmp, taken>>

\* lines 44-51: a non-empty chunk is fed to the accumulator.
ReadChunkStep(w) ==
    /\ w \in PoolWorkers
    /\ wpc[w] = "read"
    /\ kind[argsR[wtask[w]]] = "ok"
    /\ ~LoopEnds(ReadChunk(argsR[wtask[w]], woff[w]), BUFSIZE)
    /\ wh' = [wh EXCEPT ![w] = DigestUpdate(@, ReadChunk(argsR[wtask[w]], woff[w]))]
    /\ woff' = [woff EXCEPT ![w] = @ + Len(ReadChunk(argsR[wtask[w]], woff[w]))]
    /\ UNCHANGED <<hvars, rootOk, kind, logOpenOk, POOLSIZE, run, pc, argsR, walkPos, pending,
                   results, x, sink, console, log, summary, closeCalls,
                   digest_map, mainMaps, wpc, wtask, wtmp, taken, outcomes>>

\* A mutant of AfterLoop: compute_digest returns without calling msPrint.
AfterLoopNoReport == "ret"

\* A mutant of AfterLoop: the break of line 48 is missing, the loop reads on.
AfterLoopNoBreak == "read"

\* Where a worker goes when the loop ends (lines 48, 53-56): out of the
\* loop and into the call of printer.msPrint.
AfterLoop == "ms_load"

\* lines 46-56: the empty read ends the loop, the file is closed and
\* printer.msPrint(filename, dValue) is called through the proxy.
ReadEnd(w) ==
    /\ w \in PoolWorkers
    /\ wpc[w] = "read"
    /\ kind[argsR[wtask[w]]] = "ok"
    /\ LoopEnds(ReadChunk(argsR[wtask[w]], woff[w]), BUFSIZE)
    /\ wpc' = [wpc EXCEPT ![w] = AfterLoop]
    /\ UNCHANGED <<hvars, rootOk, kind, logOpenOk, POOLSIZE, run, pc, argsR, walkPos, pending,
                   results, x, sink, console, log, summary, closeCalls,
                   digest_map, mainMaps, wtask, woff, wh, wtmp, taken,
                   outcomes>>

\* line 23, self.x += 1: the load of self.x.
MsLoad(w) ==
    /\ w \in PoolWorkers
    /\ wpc[w] = "ms_load"
    /\ wtmp' = [wtmp EXCEPT ![w] = x]
    /\ wpc' = [wpc EXCEPT ![w] = "ms_store"]
    /\ UNCHANGED <<hvars, rootOk, kind, logOpenOk, POOLSIZE, run, pc, argsR, walkPos, pending,
                   results, x, sink, console, log, summary, closeCalls,
                   digest_map, mainMaps, wtask, woff, wh, taken, outcomes>>

\* line 23, self.x += 1: the store of the incremented value.
MsStore(w) ==
    /\ w \in PoolWorkers
    /\ wpc[w] = "ms_store"
    /\ x' = wtmp[w] + 1
    /\ wpc' = [wpc EXCEPT ![w] = "ms_print"]
    /\ UNCHANGED <<hvars, rootOk, kind, logOpenOk, POOLSIZE, run, pc, argsR, walkPos, pending,
                   results, sink, console, log, summary, closeCalls,
                   digest_map, mainMaps, wtask, woff, wh, wtmp, taken,
                   outcomes>>

\* line 24: the progress line, with self.x as it is now, filename[:125]
\* (the modelled paths are shorter) and digest[:20].
MsPrint(w) ==
    /\ w \in PoolWorkers
    /\ wpc[w] = "ms_print"
    /\ console' = Append(console, [seq |-> x, path |-> argsR[wtask[w]],
                                   digest |-> Prefix(Hex(wh[w]), 20)])
    /\ wpc' = [wpc EXCEPT ![w] = "ms_write"]
    /\ UNCHANGED <<hvars, rootOk, kind, logOpenOk, POOLSIZE, run, pc, argsR, walkPos, pending,
                   results, x, sink, log, summary, closeCalls, digest_map,
                   mainMaps, wtask, woff, wh, wtmp, taken, outcomes>>

\* line 25: the line appended to the run log; msPrint returns.
MsWrite(w) ==
    /\ w \in PoolWorkers
    /\ wpc[w] = "ms_write"
    /\ log' = FileWrite(log, [path |-> argsR[wtask[w]], digest |-> Hex(wh[w])])
    /\ wpc' = [wpc EXCEPT ![w] = "ret"]
    /\ UNCHANGED <<hvars, rootOk, kind, logOpenOk, POOLSIZE, run, pc, argsR, walkPos, pending,
                   results, x, sink, console, summary, closeCalls, digest_map,
                   mainMaps, wtask, woff, wh, wtmp, taken, outcomes>>

\* line 58: return filename, dValue; the pool delivers it to starmap.
ReturnPair(w) ==
    /\ w \in PoolWorkers
    /\ wpc[w] = "ret"
    /\ Deliver(w, Pair(argsR[wtask[w]], Hex(wh[w])))
    /\ UNCHANGED <<hvars, rootOk, kind, logOpenOk, POOLSIZE, run, pc, argsR, walkPos, pending,
                   x, sink, console, log, summary, closeCalls, digest_map,
                   mainMaps, woff, wh, wtmp, taken>>

----------------------------------------------------------------------------

Next ==
    \/ CreatePool
    \/ CreateSink
    \/ CreateSinkFails
    \/ WalkStep
    \/ Launch
    \/ StarmapRaises
    \/ DictTypeError
    \/ DictBuilt
    \/ Final
    \/ Return
    \/ SecondRun
    \/ \E w \in Workers : Take(w)
    \/ \E w \in Workers : OpenFails(w)
    \/ \E w \in Workers : Open(w)
    \/ \E w \in Workers : ReadRaises(w)
    \/ \E w \in Workers : ReadChunkStep(w)
    \/ \E w \in Workers : ReadEnd(w)
    \/ \E w \in Workers : MsLoad(w)
    \/ \E w \in Workers : MsStore(w)
    \/ \E w \in Workers : MsPrint(w)
    \/ \E w \in Workers : MsWrite(w)
    \/ \E w \in Workers : ReturnPair(w)

Spec == Init /\ [][Next]_vars

----------------------------------------------------------------------------
(* The digest loop of compute_digest run alone, lines 41-55, over any file *)
(* content up to MaxLen bytes and any chunk size up to one more            *)

Bytes == {0, 1, 255}

Contents == UNION {[1 .. n -> Bytes] : n \in 0 .. MaxLen}

\* The file is open and the accumulator new (line 41); the program itself
\* stands still.
DigestInit ==
    /\ rootOk = TRUE
    /\ kind = [p \in Paths |-> "absent"]
    /\ logOpenOk = TRUE
    /\ ProgramStart
    /\ hContent \in Contents
    /\ hBuf \in 1 .. MaxLen + 1
    /\ hOff = 0
    /\ hAcc = DigestNew(0)
    /\ hFed = <<>>
    /\ hpc = "read"

\* lines 44-51: a non-empty chunk is fed to the accumulator.
LoopChunk ==
    /\ hpc = "read"
    /\ ~LoopEnds(ReadAt(hContent, hOff, hBuf), hBuf)
    /\ hAcc' = DigestUpdate(hAcc, ReadAt(hContent, hOff, hBuf))
    /\ hFed' = hFed \o ReadAt(hContent, hOff, hBuf)
    /\ hOff' = hOff + Len(ReadAt(hContent, hOff, hBuf))
    /\ UNCHANGED <<progvars, hContent, hBuf, hpc>>

\* lines 46-55: the loop ends and the digest is taken.
LoopBreak ==
    /\ hpc = "read"
    /\ LoopEnds(ReadAt(hContent, hOff, hBuf), hBuf)
    /\ hpc' = "done"
    /\ UNCHANGED <<progvars, hContent, hBuf, hOff, hAcc, hFed>>

DigestNext ==
    \/ LoopChunk
    \/ LoopBreak

SpecDigest == DigestInit /\ [][DigestNext]_vars

----------------------------------------------------------------------------
(* Fair scheduling *)

\* A step of the main process.
MainStep ==
    \/ CreatePool
    \/ CreateSink
    \/ CreateSinkFails
    \/ WalkStep
    \/ Launch
    \/ StarmapRaises
    \/ DictTypeError
    \/ DictBuilt
    \/ Final
    \/ Return
    \/ SecondRun

\* A step of pool worker w, or of the manager thread serving its call.
WorkerStep(w) ==
    \/ Take(w)
    \/ OpenFails(w)
    \/ Open(w)
    \/ ReadRaises(w)
    \/ ReadChunkStep(w)
    \/ ReadEnd(w)
    \/ MsLoad(w)
    \/ MsStore(w)
    \/ MsPrint(w)
    \/ MsWrite(w)
    \/ ReturnPair(w)

\* The program when the operating system schedules every process that can
\* run: the main process, each pool worker and the manager's threads.
FairSpec ==
    /\ Spec
    /\ WF_vars(MainStep)
    /\ \A w \in Workers : WF_vars(WorkerStep(w))

----------------------------------------------------------------------------
(* Abnormal termination of a pool worker *)

\* The process of worker w dies (killed, out of memory, os._exit) while it
\* runs compute_digest; a death while it is blocked in the msPrint call is
\* not modelled.  The pool's maintenance thread replaces it by a fresh
\* worker (Pool._maintain_pool); the task it held is neither re-queued nor
\* given an outcome.
WorkerCrash(w) ==
    /\ w \in PoolWorkers
    /\ wpc[w] \in {"open", "read", "ret"}
    /\ wpc' = [wpc EXCEPT ![w] = "idle"]
    /\ wtask' = [wtask EXCEPT ![w] = 0]
    /\ woff' = [woff EXCEPT ![w] = 0]
    /\ wh' = [wh EXCEPT ![w] = 0]
    /\ UNCHANGED <<hvars, rootOk, kind, logOpenOk, POOLSIZE, run, pc, argsR, walkPos,
                   pending, results, x, sink, console, log, summary,
                   closeCalls, digest_map, mainMaps, wtmp, taken, outcomes>>

NextCrash ==
    \/ Next
    \/ \E w \in Workers : WorkerCrash(w)

\* The program with workers that may die.
SpecCrash == Init /\ [][NextCrash]_vars

----------------------------------------------------------------------------
(* Properties *)

\* The manager thread serving worker w has begun the steps of msPrint and
\* not finished them.
Inside(w) == wpc[w] \in {"ms_store", "ms_print", "ms_write"}

\* The call of build_digest_map has ended, by return or by an exception.
RunEnded == pc \in {"return", "main", "raised"}

\* The call of build_digest_map has completed: final was called and the
\* map is (about to be) returned.
RunCompleted == pc \in {"return", "main"}

Succeeded == {i \in 1 .. Len(results) : results[i].tag = "pair"}

LogPaths == {log[i].path : i \in 1 .. Len(log)}

\* C1: the steps of one msPrint call are serialized against every other
\* call: at most one call is inside them at any time, and no two calls
\* print the same sequence number.
C1_MsPrintSerialized ==
    /\ Cardinality({w \in PoolWorkers : Inside(w)}) <= 1
    /\ \A i, j \in 1 .. Len(console) :
           i # j => console[i].seq # console[j].seq

\* C2: on a completed run the sequence numbers printed are exactly 1..K,
\* without gaps or repeats, K being the number of successfully hashed files
\* and the total printed by final.
C2_SequenceIntegrity ==
    RunCompleted =>
        /\ Len(console) = Cardinality(Succeeded)
        /\ {console[i].seq : i \in 1 .. Len(console)} = 1 .. Cardinality(Succeeded)
        /\ summary = <<Cardinality(Succeeded)>>

\* The tree holds every path, one of them cannot be opened and the others
\* are readable; the run log can be opened.
OneUnopenable ==
    /\ logOpenOk
    /\ Cardinality({p \in Paths : kind[p] = "noopen"}) = 1
    /\ \A p \in Paths : kind[p] \in {"ok", "noopen"}

\* C3: with one file whose open fails and the others readable, the run does
\* not abort and returns exactly the other files' entries.
C3_UnreadableDoesNotAbort ==
    OneUnopenable =>
        /\ pc # "raised"
        /\ RunCompleted => DOMAIN digest_map = {p \in Paths : kind[p] = "ok"}

\* C4: when a run whose log could be opened has ended, it has returned a
\* map with an entry for every readable file and none for any other.
C4_Completeness ==
    (logOpenOk /\ RunEnded) =>
        /\ RunCompleted
        /\ DOMAIN digest_map = {p \in Paths : kind[p] = "ok"}

\* C5: over the unchanged tree, the map of the second run (pool size
\* POOLSIZE > 1, any interleaving) equals the map the first run (pool size
\* 1) returned, key for key and value for value.
C5_PoolSizeInvariance ==
    /\ (run = 2 /\ pc \in {"final", "return", "main"}) => digest_map = mainMaps[1]
    /\ Len(mainMaps) = 2 => mainMaps[2] = mainMaps[1]

\* Both runs returned the three files' digests, and the second run printed
\* b.txt first: the sequence numbers went to other paths than in run one.
C5_Witness ==
    /\ Len(mainMaps) = 2
    /\ DOMAIN mainMaps[2] = Paths
    /\ POOLSIZE > 1
    /\ console[1].path = "b.txt"

C7_FinalExactlyOnce ==
    /\ (RunEnded /\ sink # "none") => (Len(summary) = 1 /\ closeCalls = 1)
    /\ sink = "finalized" => \A w \in Workers : wpc[w] = "idle"

\* C8: the printed sequence numbers increase in the order of the calls, and
\* the lines of the run log are in that same order.
C8_LogOrderMatchesSequence ==
    /\ \A i, j \in 1 .. Len(console) : i < j => console[i].seq < console[j].seq
    /\ Len(log) <= Len(console)
    /\ \A i \in 1 .. Len(log) : log[i].path = console[i].path

\* C9: whenever build_digest_map has a map to return, every enumerated task
\* has delivered its outcome and the map is the dict of all of them.
C9_NoPartialResults ==
    pc \in {"final", "return", "main"} =>
        /\ Len(results) = Len(argsR)
        /\ \A i \in 1 .. Len(argsR) : results[i].tag # "pending"
        /\ \A w \in Workers : wpc[w] = "idle"
        /\ digest_map = Dict(results)
        /\ DOMAIN digest_map = {argsR[i] : i \in 1 .. Len(argsR)}
        /\ pc = "main" => mainMaps[Len(mainMaps)] = digest_map

\* The pool of two workers has drained three tasks and the map is returned.
C9_Witness ==
    /\ pc = "return"
    /\ POOLSIZE > 1
    /\ Len(argsR) = 3

\* C10: the run log never holds a line for a file that was not hashed nor
\* two lines for one file, and on a completed run the paths in the log are
\* the keys of the returned map, each with the digest the map gives it.
C10_LogMatchesMap ==
    /\ \A i \in 1 .. Len(log) : kind[log[i].path] = "ok"
    /\ \A i, j \in 1 .. Len(log) : i # j => log[i].path # log[j].path
    /\ RunCompleted =>
           /\ LogPaths = DOMAIN digest_map
           /\ \A i \in 1 .. Len(log) : log[i].digest = digest_map[log[i].path]

\* A completed run of the larger pool whose log has a line for each of two
\* files.
C10_Witness ==
    /\ pc = "main"
    /\ run = 2
    /\ Len(log) = 2

\* C11: a file that cannot be opened or cannot be read to the end gives the
\* outcome None, and no task delivers an exception to starmap.
C11_PerFileErrorsAbsorbed ==
    \A i \in 1 .. Len(results) :
        /\ results[i].tag # "exc"
        /\ (results[i].tag # "pending" /\ kind[argsR[i]] # "ok") =>
               results[i].tag = "None"

\* C12: when the root directory cannot be listed, build_digest_map does not
\* complete as a normal run.
C12_TraversalErrorSurfaced == ~rootOk => ~RunCompleted

\* C13: when the run log cannot be opened, the run is aborted at the
\* construction of the sink: no sink exists, no task is ever queued or
\* taken and no worker ever runs compute_digest.
C13_SinkErrorAbortsBeforeDispatch ==
    ~logOpenOk =>
        /\ pc \in {"pool", "manager", "raised"}
        /\ sink = "none"
        /\ pending = <<>> /\ results = <<>> /\ taken = <<>>
        /\ \A w \in Workers : wpc[w] = "idle" /\ wtask[w] = 0

\* The run log could not be opened over a tree with a readable file, and
\* the exception has left build_digest_map.
C13_Witness ==
    /\ ~logOpenOk
    /\ pc = "raised"
    /\ \E p \in Paths : kind[p] = "ok"

\* C15: a task's (path, digest) outcome is delivered only after the msPrint
\* call for it has returned: its progress line is printed and its log line
\* written, and every key of the map built has its log line.
C15_ReportedBeforeReturned ==
    /\ \A i \in Succeeded :
           /\ results[i].path \in LogPaths
           /\ \E k \in 1 .. Len(console) : console[k].path = results[i].path
           /\ \A w \in Workers : wtask[w] # i
    /\ pc \in {"final", "return", "main"} => DOMAIN digest_map \subseteq LogPaths

\* One task's pair has been delivered while another worker is still inside
\* its msPrint call.
C15_Witness ==
    /\ Succeeded # {}
    /\ \E w \in PoolWorkers : Inside(w)

\* The paths os.walk yields over the tree, in order.
RECURSIVE Enumerated(_)
Enumerated(n) ==
    IF n = 0 \/ ~rootOk THEN <<>>
    ELSE IF kind[WalkOrder[n]] = "absent" THEN Enumerated(n - 1)
    ELSE Append(Enumerated(n - 1), WalkOrder[n])

\* C18: while the walk is not over nothing is queued and every worker is
\* idle; from the call of starmap on, and whenever a task is queued, held
\* or delivered, argsR is the complete enumeration of the tree.
C18_WalkBeforeDispatch ==
    /\ pc \in {"pool", "manager", "walk"} =>
           /\ pending = <<>> /\ results = <<>>
           /\ \A w \in Workers : wpc[w] = "idle"
    /\ (\/ pc \in {"wait", "final", "return", "main"}
        \/ pending # <<>> \/ results # <<>>
        \/ \E w \in Workers : wpc[w] # "idle") =>
           /\ rootOk => walkPos = Len(WalkOrder)
           /\ argsR = Enumerated(Len(WalkOrder))
           /\ Len(results) = Len(argsR)

\* The three files are enumerated and a worker is reading the first while
\* the other two are still queued.
C18_Witness ==
    /\ pc = "wait"
    /\ Len(argsR) = 3
    /\ Len(pending) = 2
    /\ \E w \in PoolWorkers : wpc[w] = "read"

\* The tasks lost with a worker that died: taken, held by no worker and
\* without an outcome.
Lost ==
    {i \in 1 .. Len(outcomes) :
        /\ outcomes[i] = 0
        /\ taken[i] # {}
        /\ \A w \in Workers : wtask[w] # i}

\* C14: when a worker died holding a task, the run neither completes with a
\* map that lacks the task's entry nor stays in starmap with no step left
\* that could end the wait.
C14_CrashPropagates ==
    Lost # {} =>
        /\ ~RunCompleted
        /\ pc = "wait" => ENABLED NextCrash

\* Every file of the tree can be opened and read, and so can the root and
\* the run log.
AllReadable ==
    /\ rootOk
    /\ logOpenOk
    /\ \A p \in Paths : kind[p] \in {"ok", "absent"}

\* The call of build_digest_map is over: every task has its outcome, the
\* sink is finalized and the map is bound in __main__.
RunReturned ==
    /\ pc = "main"
    /\ sink = "finalized"
    /\ \A i \in 1 .. Len(argsR) : outcomes[i] = 1
    /\ Len(mainMaps) = run

\* C16: under fair scheduling and over a tree of readable files, every call
\* of build_digest_map that has begun eventually returns its map, with
\* every task's outcome delivered and the sink finalized.
C16_RunTerminates == (AllReadable /\ pc = "pool") ~> RunReturned

\* The second run, with the larger pool, has returned over three files.
C16_Witness ==
    /\ RunReturned
    /\ run = 2
    /\ POOLSIZE > 1
    /\ Len(argsR) = 3

\* C17: the bytes fed to the accumulator are at every moment the bytes of
\* the file up to the file position, each once and in order; when the loop
\* has ended they are the whole file, and the digest is the digest of the
\* whole content taken in one piece, whatever the chunk size.
C17_DigestOfWholeFile ==
    /\ hpc \in {"read", "done"} =>
           /\ hFed = SubSeq(hContent, 1, hOff)
           /\ hAcc = DigestUpdate(DigestNew(0), hFed)
    /\ hpc = "done" =>
           /\ hFed = hContent
           /\ Hex(hAcc) = Hex(DigestUpdate(DigestNew(0), hContent))

\* A file of three bytes read with a buffer of two: a full chunk, a short
\* one, then the empty read.
C17_Witness ==
    /\ hpc = "done"
    /\ Len(hContent) = 3
    /\ hBuf = 2

====
